---- MODULE Spec2Model ----
(***************************************************************************)
(* Model of the code-analysis-tool repository: the living documentation    *)
(* agent (scripts/doc-agent.js and its second revision, unnamed/part_002). *)
(*                                                                         *)
(* Text is modelled as a sequence of tokens.  A token is either one whole  *)
(* sentinel ("<!-- DOCS:START:foo -->") or a piece of text that holds no   *)
(* sentinel.  A sentinel starts with "<" and holds no other "<", so two    *)
(* occurrences never overlap and String.indexOf on the characters finds    *)
(* the same occurrence as the search for the first equal token does here.  *)
(***************************************************************************)
EXTENDS Integers, Sequences, FiniteSets, TLC

VARIABLES
    rev,          \* which revision of the agent runs
    apiKey,       \* GEMINI_API_KEY is set and not empty
    repo,         \* the working tree: what the git and glob collaborators answer
    docs,         \* content of DOCS_FILE (README.md) on disk
    pc,           \* position of main
    queries,      \* getChangedFiles: the collaborator queries issued, in order
    changedFiles, \* main: the files to document
    fileIdx,      \* main: 1-based position in changedFiles
    functions,    \* main: the exported functions of the current file
    funcIdx,      \* main: 1-based position in functions
    attempt,      \* generateWithGemini: the loop counter
    calls,        \* generateWithGemini: what each network call of this invocation met
    sleeps,       \* generateWithGemini: the delays slept in this invocation, in ms
    newDocs,      \* main: the text generateWithGemini returned
    fileContent,  \* updateDocsFile: the content last read from DOCS_FILE
    patchArgs,    \* updateDocsFile: <<functionName, newDocsContent>> of the last call
    patchRes,     \* updateDocsFile: "none", "skipped" or "written" for the last call
    docsAtStart,  \* content of DOCS_FILE when the run began
    lastPatch,    \* per function name: the content last written for it, if any
    exitCode,     \* status the process ends with
    fatal,        \* message of the error that reached the process boundary
    console,      \* the lines the last step wrote to the console
    faults,       \* the classes of fatal error the run has met so far
    source,       \* extractExportedFunctions: the file it was last called for
    filePaths,    \* analyzeFiles: its argument
    disk,         \* the files of the analyzed tree: per path, what a read and a parse give
    results,      \* analyzeFiles: the results object it builds
    fileNo,       \* analyzeFiles: the number of paths the loop has taken
    apc,          \* position of analyzeCodebase
    report        \* generateReport: what the report is made of

\* the state of the documentation agent, and the state of the analyzer
syncVars == <<rev, apiKey, repo, docs, pc, queries, changedFiles, fileIdx, functions,
              funcIdx, attempt, calls, sleeps, newDocs, fileContent, patchArgs,
              patchRes, docsAtStart, lastPatch, exitCode, fatal, console, faults,
              source>>
analysisVars == <<filePaths, disk, results, fileNo, apc, report>>

vars == <<syncVars, analysisVars>>

-----------------------------------------------------------------------------
(* The two revisions of the agent held by the repository *)

DocAgent == "scripts/doc-agent.js"
Part002 == "unnamed/part_002"
Revisions == {DocAgent, Part002}

FunctionNames == {"foo", "bar"}

NL == "\n"
Whitespace == {NL, " "}

startMarker(functionName) == "<!-- DOCS:START:" \o functionName \o " -->"
endMarker(functionName) == "<!-- DOCS:END:" \o functionName \o " -->"

-----------------------------------------------------------------------------
(* String primitives of JavaScript, on token sequences *)

\* String.prototype.indexOf: the 0-based position of the first occurrence, or -1
indexOf(s, tok) ==
    IF \E i \in 1..Len(s) : s[i] = tok
    THEN (CHOOSE i \in 1..Len(s) : s[i] = tok /\ \A j \in 1..(i - 1) : s[j] # tok) - 1
    ELSE -1

Clamp(i, n) == IF i < 0 THEN 0 ELSE IF i > n THEN n ELSE i

\* String.prototype.substring(from, to): 0-based, to exclusive, arguments clamped
\* to the string and swapped when from > to
substring(s, from, to) ==
    LET a == Clamp(from, Len(s))
        b == Clamp(to, Len(s))
    IN  IF a <= b THEN SubSeq(s, a + 1, b) ELSE SubSeq(s, b + 1, a)

\* String.prototype.substring(from): to the end of the string
substringFrom(s, from) == substring(s, from, Len(s))

RECURSIVE trimStart(_)
trimStart(s) ==
    IF s # <<>> /\ Head(s) \in Whitespace THEN trimStart(Tail(s)) ELSE s

RECURSIVE trimEnd(_)
trimEnd(s) ==
    IF s # <<>> /\ s[Len(s)] \in Whitespace THEN trimEnd(SubSeq(s, 1, Len(s) - 1)) ELSE s

\* String.prototype.trim
trim(s) == trimEnd(trimStart(s))

-----------------------------------------------------------------------------
(* updateDocsFile *)

\* a slip in the test below: the write is skipped only when both sentinels are missing
markersMissing_BothOnly(startIndex, endIndex) == startIndex = -1 /\ endIndex = -1

\* the test that skips the write: either sentinel missing
markersMissing(startIndex, endIndex) == startIndex = -1 \/ endIndex = -1

\* the template literal that builds the new content of DOCS_FILE
finalContent(r, contentBefore, newDocsContent, contentAfter) ==
    IF r = DocAgent
    THEN contentBefore \o <<NL>> \o newDocsContent \o <<NL>> \o contentAfter
    ELSE contentBefore \o <<NL, NL>> \o trim(newDocsContent) \o <<NL, NL>> \o contentAfter

\* updateDocsFile on the content read: what is written (if anything) and logged
updateDocsFile(r, content, functionName, newDocsContent) ==
    LET startIndex == indexOf(content, startMarker(functionName))
        endIndex == indexOf(content, endMarker(functionName))
    IN  IF markersMissing(startIndex, endIndex)
        THEN [written |-> FALSE, content |-> content, console |-> "warn: markers not found"]
        ELSE LET contentBefore == substring(content, 0, startIndex + Len(<<startMarker(functionName)>>))
                 contentAfter == substringFrom(content, endIndex)
             IN  [written |-> TRUE,
                  content |-> finalContent(r, contentBefore, newDocsContent, contentAfter),
                  console |-> "log: updated"]

-----------------------------------------------------------------------------
(* generateWithGemini *)

MAX_RETRIES == 3
BASE_DELAY_MS == 1000

RECURSIVE pow(_, _)
\* Math.pow on non-negative integers
pow(b, e) == IF e = 0 THEN 1 ELSE b * pow(b, e - 1)

\* a slip in the delay below: the exponent counts the attempts from 0
backoff_FromZero(k) == BASE_DELAY_MS * pow(2, k - 1)

\* the argument of sleep: 1000 * Math.pow(2, attempt)
backoff(k) == BASE_DELAY_MS * pow(2, k)

Statuses == {200, 400, 429, 500}
\* generated texts: empty, plain, padded with line breaks, and one that quotes a sentinel
Texts == {<<>>, <<"text">>, <<NL, "text", NL>>, <<endMarker("bar")>>}

\* What one network call meets: a transport-level exception (fetch rejects), or a
\* response with a status and a body.  json: the body parses as JSON; hasText:
\* candidates[0].content.parts[0].text is present; text: its value.
Exception == [kind |-> "exception", status |-> 0, json |-> FALSE, hasText |-> FALSE, text |-> <<>>]
Response(s, j, h, t) == [kind |-> "response", status |-> s, json |-> j, hasText |-> h, text |-> t]
Responses ==
    {Exception}
    \cup {Response(s, j, FALSE, <<>>) : s \in Statuses, j \in BOOLEAN}
    \cup {Response(200, TRUE, TRUE, t) : t \in Texts}

\* a slip in the test below: the status of the response is not looked at
ok_Always(resp) == TRUE

\* Response.ok
ok(resp) == resp.status >= 200 /\ resp.status <= 299

\* the test for a client-side error that is not to be retried
isClientError(status) == status >= 400 /\ status < 500 /\ status # 429

\* What the log of calls keeps of a call: the status (or "exception"), whether
\* response.json() was called and threw, and the generated text that was read.
\* scripts/doc-agent.js parses the body of an ok response only, unnamed/part_002
\* of every response.
Met(r, resp) ==
    [status |-> IF resp.kind = "exception" THEN "exception" ELSE ToString(resp.status),
     jsonFailed |-> resp.kind = "response" /\ (r = Part002 \/ ok(resp)) /\ ~resp.json,
     text |-> IF resp.kind = "response" /\ ok(resp) /\ resp.json /\ resp.hasText
              THEN resp.text ELSE <<>>]

\* Messages of Error objects: the template's pieces and the values put in it
NoError == <<>>
MsgNoKey(r) ==
    IF r = DocAgent THEN <<"GEMINI_API_KEY environment variable not set.">>
    ELSE <<"GEMINI_API_KEY is not configured.">>
MsgFetchFailed == <<"fetch failed">>
MsgBadJson == <<"Unexpected token in JSON">>
MsgClient(status) ==
    <<"API call failed with status", ToString(status),
      "This is a client-side error and will not be retried.">>
MsgStatus(status) ==
    <<"API call failed with status", ToString(status),
      "Check the GitHub Actions log for details.">>
MsgAfterAttempts(message) ==
    <<"API call failed after", ToString(MAX_RETRIES), "attempts. Last error:">> \o message
MsgAfterAllRetries == <<"API call failed after all retries.">>
MsgInvalid == <<"Received an invalid or empty response from the Gemini API.">>

\* the value of `text || ''` and the test `!text`: a missing and an empty text are falsy
falsy(resp) == ~resp.hasText \/ resp.text = <<>>

\* scripts/doc-agent.js, the error thrown inside the try block of one attempt
\* (NoError: none is thrown)
thrownInTry(resp) ==
    IF resp.kind = "exception" THEN MsgFetchFailed
    ELSE IF ~ok(resp)
         THEN IF isClientError(resp.status) THEN MsgClient(resp.status) ELSE NoError
         ELSE IF ~resp.json THEN MsgBadJson ELSE NoError

\* a slip in the catch block below: it gives up one attempt early
catchBlock_OneEarly(k, message) ==
    IF k >= MAX_RETRIES - 1
    THEN [next |-> "throw", error |-> MsgAfterAttempts(message), text |-> <<>>]
    ELSE [next |-> "sleep", error |-> NoError, text |-> <<>>]

\* scripts/doc-agent.js, the catch block: the last attempt rethrows, the others sleep
catchBlock(k, message) ==
    IF k = MAX_RETRIES
    THEN [next |-> "throw", error |-> MsgAfterAttempts(message), text |-> <<>>]
    ELSE [next |-> "sleep", error |-> NoError, text |-> <<>>]

\* scripts/doc-agent.js, one pass of the body of the for loop, up to its first
\* sleep, return or throw out of the function
attemptDocAgent(k, resp) ==
    IF thrownInTry(resp) # NoError THEN catchBlock(k, thrownInTry(resp))
    ELSE IF ~ok(resp) THEN [next |-> "sleep", error |-> NoError, text |-> <<>>]
    ELSE [next |-> "return", error |-> NoError,
          text |-> IF falsy(resp) THEN <<>> ELSE resp.text]

\* unnamed/part_002, the single call: every error is logged and thrown again
attemptPart002(resp) ==
    IF resp.kind = "exception" THEN [next |-> "throw", error |-> MsgFetchFailed, text |-> <<>>]
    ELSE IF ~resp.json THEN [next |-> "throw", error |-> MsgBadJson, text |-> <<>>]
    ELSE IF ~ok(resp) THEN [next |-> "throw", error |-> MsgStatus(resp.status), text |-> <<>>]
    ELSE IF falsy(resp) THEN [next |-> "throw", error |-> MsgInvalid, text |-> <<>>]
    ELSE [next |-> "return", error |-> NoError, text |-> resp.text]

attemptOutcome(r, k, resp) ==
    IF r = DocAgent THEN attemptDocAgent(k, resp) ELSE attemptPart002(resp)

\* a slip in the test below: the credential is never found missing
keyMissing_Never(key) == FALSE

\* the test `!GEMINI_API_KEY`: the variable is unset or empty
keyMissing(key) == ~key

\* The classes of fatal error that the answer to attempt k is, for the record
\* of the run: a client error status; a 2xx answer without generated text; a
\* transient failure (exception, unparsable body, 429, 5xx) on the last attempt
\* the revision makes.
fatalClass(r, k, resp) ==
    LET last == r = Part002 \/ k = MAX_RETRIES
        transient == \/ resp.kind = "exception"
                     \/ resp.status = 429 \/ resp.status >= 500
                     \/ (ok(resp) /\ ~resp.json)
    IN  (IF resp.kind = "response" /\ isClientError(resp.status)
         THEN {"client error"} ELSE {})
        \cup (IF resp.kind = "response" /\ ok(resp) /\ resp.json /\ falsy(resp)
              THEN {"invalid response"} ELSE {})
        \cup (IF transient /\ last THEN {"retries exhausted"} ELSE {})

-----------------------------------------------------------------------------
(* getChangedFiles *)

\* A path is a sequence of pieces of its characters, cut so that a leading
\* "src/" and a trailing ".js" are pieces of their own.
PathSrcA == <<"src/", "a", ".js">>
PathSrcB == <<"src/", "b", ".js">>
PathLibC == <<"lib/", "c", ".js">>

\* String.prototype.startsWith / endsWith, for a piece
startsWith(path, piece) == path # <<>> /\ Head(path) = piece
endsWith(path, piece) == path # <<>> /\ path[Len(path)] = piece

\* a slip in the test below: either half of the filter is enough
isChangedSource_Either(file) == endsWith(file, ".js") \/ startsWith(file, "src/")

\* the test of Array.prototype.filter (SelectSeq) on the paths of the diff
isChangedSource(file) == endsWith(file, ".js") /\ startsWith(file, "src/")

\* What the collaborators answer in a working tree.  isRepo: git.checkIsRepo();
\* log: git.log({n: 2}), which fails or gives total; diff: git.diffSummary of
\* HEAD~1..HEAD, which fails or gives the changed paths; glob: the files
\* matching SOURCE_CODE_PATTERN.  Outside a repository every git query fails.
Failed == [ok |-> FALSE, total |-> 0, files |-> <<>>]
LogOf(n) == [ok |-> TRUE, total |-> n, files |-> <<>>]
DiffOf(l) == [ok |-> TRUE, total |-> 0, files |-> l]
Repo(isRepo, log, diff, glob) == [isRepo |-> isRepo, log |-> log, diff |-> diff, glob |-> glob]

\* a slip in the test below: a history of one commit is diffed
fewerThanTwo_OffByOne(total) == total < 1

\* the test for a history with no commit to diff against
fewerThanTwo(total) == total < 2

\* getAllSourceFiles: the glob of SOURCE_CODE_PATTERN
getAllSourceFiles(tree) == tree.glob

\* scripts/doc-agent.js
getChangedFilesDocAgent(tree) ==
    IF ~tree.log.ok
    THEN [files |-> getAllSourceFiles(tree), queries |-> <<"log", "glob">>,
          console |-> "error: getting changed files, falling back to all files"]
    ELSE IF fewerThanTwo(tree.log.total)
    THEN [files |-> getAllSourceFiles(tree), queries |-> <<"log", "glob">>,
          console |-> "warn: only one commit"]
    ELSE IF ~tree.diff.ok
    THEN [files |-> getAllSourceFiles(tree), queries |-> <<"log", "diff", "glob">>,
          console |-> "error: getting changed files, falling back to all files"]
    ELSE [files |-> SelectSeq(tree.diff.files, isChangedSource),
          queries |-> <<"log", "diff">>, console |-> "none"]

\* unnamed/part_002
getChangedFilesPart002(tree) ==
    IF ~tree.isRepo
    THEN [files |-> tree.glob, queries |-> <<"checkIsRepo", "glob">>,
          console |-> "warn: not a git repository"]
    ELSE IF ~tree.log.ok
    THEN [files |-> <<>>, queries |-> <<"checkIsRepo", "log">>,
          console |-> "error: getting changed files from git"]
    ELSE IF fewerThanTwo(tree.log.total)
    THEN [files |-> tree.glob, queries |-> <<"checkIsRepo", "log", "glob">>,
          console |-> "warn: only one commit"]
    ELSE IF ~tree.diff.ok
    THEN [files |-> <<>>, queries |-> <<"checkIsRepo", "log", "diff">>,
          console |-> "error: getting changed files from git"]
    ELSE [files |-> SelectSeq(tree.diff.files, isChangedSource),
          queries |-> <<"checkIsRepo", "log", "diff">>, console |-> "none"]

getChangedFiles(r, tree) ==
    IF r = DocAgent THEN getChangedFilesDocAgent(tree) ELSE getChangedFilesPart002(tree)

-----------------------------------------------------------------------------
(* extractExportedFunctions *)

\* A source file is a sequence of top-level statements, each of a kind and
\* with a name; its text is the statements' text, one per line.
StmtKinds == {"export function", "function", "export class", "export default function",
              "export list", "export const", "block function"}
Stmt(kind, name) == [kind |-> kind, name |-> name]

\* the text of the declaration inside a statement
declText(stmt) ==
    CASE stmt.kind \in {"export function", "function", "export default function",
                        "block function"} ->
             "function " \o stmt.name \o "(){}"
      [] stmt.kind = "export class" -> "class " \o stmt.name \o "{}"
      [] stmt.kind = "export const" -> "const " \o stmt.name \o " = function(){};"
      [] OTHER -> "{" \o stmt.name \o "};"

\* the text before the declaration in its statement
leadText(stmt) ==
    CASE stmt.kind = "function" -> <<>>
      [] stmt.kind = "export default function" -> <<"export default ">>
      [] stmt.kind = "block function" -> <<"{ ">>
      [] OTHER -> <<"export ">>

\* the text after the declaration in its statement
trailText(stmt) == IF stmt.kind = "block function" THEN <<" }">> ELSE <<>>

stmtText(stmt) == leadText(stmt) \o <<declText(stmt)>> \o trailText(stmt) \o <<NL>>

RECURSIVE sourceText(_)
sourceText(stmts) ==
    IF stmts = <<>> THEN <<>> ELSE stmtText(Head(stmts)) \o sourceText(Tail(stmts))

\* the node @babel/parser gives for a statement that starts at offset `at`
nodeOf(stmt, at) ==
    LET declStart == at + Len(leadText(stmt))
        decl == [type |-> CASE stmt.kind \in {"export function", "function",
                                               "export default function",
                                               "block function"} -> "FunctionDeclaration"
                            [] stmt.kind = "export class" -> "ClassDeclaration"
                            [] stmt.kind = "export const" -> "VariableDeclaration"
                            [] OTHER -> "null",
                 name |-> stmt.name, start |-> declStart, end |-> declStart + 1]
    IN  IF stmt.kind = "function" THEN decl
        ELSE IF stmt.kind = "block function"
        THEN [type |-> "BlockStatement", start |-> at,
              end |-> declStart + 1 + Len(trailText(stmt)), body |-> <<decl>>]
        ELSE [type |-> IF stmt.kind = "export default function"
                       THEN "ExportDefaultDeclaration" ELSE "ExportNamedDeclaration",
              start |-> at, end |-> declStart + 1, declaration |-> decl]

RECURSIVE parseBody(_, _)
\* ast.program.body of the parsed text
parseBody(stmts, at) ==
    IF stmts = <<>> THEN <<>>
    ELSE <<nodeOf(Head(stmts), at)>>
         \o parseBody(Tail(stmts), at + Len(stmtText(Head(stmts))))

\* a slip in the test below: the kind of the declaration is not looked at
isExportedFunction_AnyDeclaration(node) ==
    /\ node.type = "ExportNamedDeclaration"
    /\ node.declaration.type # "null"

\* the test of the forEach callback
isExportedFunction(node) ==
    /\ node.type = "ExportNamedDeclaration"
    /\ node.declaration.type # "null"
    /\ node.declaration.type = "FunctionDeclaration"

RECURSIVE collectExported(_, _)
\* the forEach over ast.program.body
collectExported(code, body) ==
    IF body = <<>> THEN <<>>
    ELSE (IF isExportedFunction(Head(body))
          THEN <<[name |-> Head(body).declaration.name,
                  code |-> substring(code, Head(body).declaration.start,
                                     Head(body).declaration.end)]>>
          ELSE <<>>)
         \o collectExported(code, Tail(body))

\* A file of the working tree: it can be read or not, its text parses or not.
Unreadable == [readable |-> FALSE, valid |-> FALSE, stmts |-> <<>>]
Malformed == [readable |-> TRUE, valid |-> FALSE, stmts |-> <<>>]
Source(stmts) == [readable |-> TRUE, valid |-> TRUE, stmts |-> stmts]

MsgENOENT == <<"ENOENT: no such file or directory">>
MsgSyntaxError == <<"SyntaxError: Unexpected token">>

\* extractExportedFunctions: scripts/doc-agent.js lets a failed read or parse
\* escape, unnamed/part_002 logs it and returns no function
extractExportedFunctions(r, file) ==
    IF ~file.readable \/ ~file.valid
    THEN IF r = DocAgent
         THEN [thrown |-> IF file.readable THEN MsgSyntaxError ELSE MsgENOENT,
               functions |-> <<>>, console |-> <<>>]
         ELSE [thrown |-> NoError, functions |-> <<>>,
               console |-> <<"error: Failed to parse file">>]
    ELSE [thrown |-> NoError,
          functions |-> collectExported(sourceText(file.stmts), parseBody(file.stmts, 0)),
          console |-> <<>>]

-----------------------------------------------------------------------------
(* main: the sync pipeline *)

MsgEACCES == <<"EACCES: permission denied">>

\* the working trees, source files and documents of the runs of main
SyncRepos ==
    {Repo(FALSE, Failed, Failed, <<PathSrcA, PathSrcB>>),
     Repo(TRUE, Failed, Failed, <<PathSrcA, PathSrcB>>),
     Repo(TRUE, LogOf(0), Failed, <<PathSrcA, PathSrcB>>),
     Repo(TRUE, LogOf(1), Failed, <<PathSrcA, PathSrcB>>),
     Repo(TRUE, LogOf(2), Failed, <<PathSrcA, PathSrcB>>),
     Repo(TRUE, LogOf(2), DiffOf(<<PathLibC, PathSrcB>>), <<PathSrcA, PathSrcB>>),
     Repo(TRUE, LogOf(2), DiffOf(<<PathLibC>>), <<PathSrcA, PathSrcB>>)}

SyncSources ==
    {Unreadable, Malformed,
     Source(<<Stmt("export function", "foo")>>),
     Source(<<Stmt("function", "foo"), Stmt("export function", "bar")>>),
     Source(<<Stmt("export function", "foo"), Stmt("export function", "bar")>>)}

SyncDocs ==
    {<<"# README", startMarker("foo"), "old", endMarker("foo"),
       startMarker("bar"), "old", endMarker("bar")>>,
     <<"# README", startMarker("foo"), "old", endMarker("foo"),
       startMarker("bar"), "old">>}

Unpatched == [done |-> FALSE, content |-> <<>>]
Patched(content) == [done |-> TRUE, content |-> content]

\* the control state of main after a step
Control(p, fi, fs, fj, code, message, line) ==
    /\ pc' = p
    /\ fileIdx' = fi
    /\ functions' = fs
    /\ funcIdx' = fj
    /\ exitCode' = code
    /\ fatal' = message
    /\ console' = line

\* a slip in the handler below: the error is caught inside the loop over the
\* functions, which goes on with the next one
Exit_InsideLoop(message) ==
    IF funcIdx < Len(functions)
    THEN Control("generate", fileIdx, functions, funcIdx + 1, 1, message, <<"error: fatal error">>)
    ELSE Control("done", fileIdx, functions, funcIdx, 1, message, <<"error: fatal error">>)

\* an error reaches the process boundary: it is logged and the process exits with 1
Exit(message) ==
    Control("done", fileIdx, functions, funcIdx, 1, message, <<"error: fatal error">>)

\* the two for loops of main: after the function at funcIdx, or after a file
\* with no function (fj = Len(fs))
Advance(fs, fj, line) ==
    IF fj < Len(fs) THEN Control("generate", fileIdx, fs, fj + 1, 0, NoError, line)
    ELSE IF fileIdx < Len(changedFiles)
    THEN Control("extract", fileIdx + 1, <<>>, 0, 0, NoError, line)
    ELSE Control("done", fileIdx, <<>>, 0, 0, NoError, line \o <<"log: finished">>)

\* main up to the first loop: getChangedFiles and the test for no changed file
MainStart ==
    /\ pc = "main"
    /\ LET sel == getChangedFiles(rev, repo)
       IN  /\ queries' = sel.queries
           /\ changedFiles' = sel.files
           /\ IF sel.files = <<>>
              THEN Control("done", 0, <<>>, 0, 0, NoError,
                           <<sel.console, "log: no relevant source files changed">>)
              ELSE Control("extract", 1, <<>>, 0, 0, NoError,
                           <<sel.console, "log: changed files">>)
    /\ UNCHANGED analysisVars
    /\ UNCHANGED <<rev, apiKey, repo, source, docs, attempt, calls, sleeps, newDocs, fileContent,
                   patchArgs, patchRes, docsAtStart, lastPatch, faults>>

\* extractExportedFunctions(file) for the file at fileIdx, which holds one of
\* the given contents
MainExtractOf(contents) ==
    /\ pc = "extract"
    /\ \E file \in contents :
          LET ex == extractExportedFunctions(rev, file)
          IN  /\ source' = file
              /\ IF ex.thrown # NoError
                 THEN Exit(ex.thrown) /\ faults' = faults \cup {"file error"}
                 ELSE Advance(ex.functions, 0, ex.console) /\ faults' = faults
    /\ UNCHANGED analysisVars
    /\ UNCHANGED <<rev, apiKey, repo, docs, queries, changedFiles, attempt, calls, sleeps,
                   newDocs, fileContent, patchArgs, patchRes, docsAtStart,
                   lastPatch>>

MainExtract == MainExtractOf(SyncSources)

\* generateWithGemini up to the loop: the test of the credential
GenerateEnter ==
    /\ pc = "generate"
    /\ IF keyMissing(apiKey)
       THEN /\ Exit(MsgNoKey(rev))
            /\ faults' = faults \cup {"missing credential"}
            /\ UNCHANGED <<attempt, calls, sleeps>>
       ELSE /\ Control("fetch", fileIdx, functions, funcIdx, 0, NoError, <<"log: found function">>)
            /\ faults' = faults
            /\ attempt' = 1
            /\ calls' = <<>>
            /\ sleeps' = <<>>
    /\ UNCHANGED analysisVars
    /\ UNCHANGED <<rev, apiKey, repo, source, docs, queries, changedFiles, newDocs, fileContent,
                   patchArgs, patchRes, docsAtStart, lastPatch>>

\* one network call and what the code does with its answer, up to a sleep, a
\* return or a throw
GenerateFetch ==
    /\ pc = "fetch"
    /\ \E resp \in Responses :
          LET out == attemptOutcome(rev, attempt, resp)
          IN  /\ calls' = Append(calls, Met(rev, resp))
              /\ faults' = faults \cup fatalClass(rev, attempt, resp)
              /\ CASE out.next = "return" ->
                        /\ newDocs' = out.text
                        /\ Control("update", fileIdx, functions, funcIdx, 0, NoError,
                                   <<>>)
                   [] out.next = "throw" ->
                        /\ Exit(out.error)
                        /\ UNCHANGED newDocs
                   [] OTHER ->
                        /\ Control("sleep", fileIdx, functions, funcIdx, 0, NoError,
                                   <<"warn: attempt failed, retrying">>)
                        /\ UNCHANGED newDocs
    /\ UNCHANGED analysisVars
    /\ UNCHANGED <<rev, apiKey, repo, source, docs, queries, changedFiles, attempt, sleeps,
                   fileContent, patchArgs, patchRes, docsAtStart, lastPatch>>

\* the backoff sleep, then attempt++ and the loop test; leaving the loop throws
GenerateSleep ==
    /\ pc = "sleep"
    /\ sleeps' = Append(sleeps, backoff(attempt))
    /\ attempt' = attempt + 1
    /\ IF attempt + 1 <= MAX_RETRIES
       THEN Control("fetch", fileIdx, functions, funcIdx, 0, NoError, <<>>)
       ELSE Exit(MsgAfterAllRetries)
    /\ UNCHANGED analysisVars
    /\ UNCHANGED <<rev, apiKey, repo, source, docs, queries, changedFiles, calls, newDocs,
                   fileContent, patchArgs, patchRes, docsAtStart, lastPatch, faults>>

\* a slip in the read below: the content read for an earlier patch is used again
contentRead_Cached(onDisk, previous) == IF previous = <<>> THEN onDisk ELSE previous

\* `fileContent = await fs.readFile(DOCS_FILE, 'utf8')`: the content on disk,
\* whatever an earlier call has read
contentRead(onDisk, previous) == onDisk

\* updateDocsFile(func.name, newDocs): read, splice, write; a failed read or
\* write throws.  When it returns, the iteration's locals (the generation's
\* attempt, calls and sleeps, and newDocs) go out of scope.
MainUpdateDocs ==
    /\ pc = "update"
    /\ \E io \in {"ok", "read fails", "write fails"} :
          LET name == functions[funcIdx].name
              res == updateDocsFile(rev, contentRead(docs, fileContent), name, newDocs)
              thrown == IF io = "read fails" THEN MsgENOENT
                        ELSE IF res.written /\ io = "write fails" THEN MsgEACCES
                        ELSE NoError
          IN  /\ patchArgs' = <<name, newDocs>>
              /\ fileContent' = IF io = "read fails" THEN fileContent
                                 ELSE contentRead(docs, fileContent)
              /\ IF thrown # NoError
                 THEN /\ Exit(thrown)
                      /\ faults' = faults \cup {"file error"}
                      /\ patchRes' = "none"
                      /\ UNCHANGED <<docs, lastPatch, attempt, calls, sleeps, newDocs>>
                 ELSE /\ docs' = res.content
                      /\ patchRes' = IF res.written THEN "written" ELSE "skipped"
                      /\ lastPatch' = IF res.written
                                      THEN [lastPatch EXCEPT ![name] = Patched(newDocs)]
                                      ELSE lastPatch
                      /\ Advance(functions, funcIdx, <<res.console>>)
                      /\ faults' = faults
                      /\ attempt' = 0
                      /\ calls' = <<>>
                      /\ sleeps' = <<>>
                      /\ newDocs' = <<>>
    /\ UNCHANGED analysisVars
    /\ UNCHANGED <<rev, apiKey, repo, source, queries, changedFiles, docsAtStart>>

\* no file has been read
NoSource == [readable |-> FALSE, valid |-> FALSE, stmts |-> <<>>]

\* the state in which main starts, but for the working tree
MainInit ==
    /\ rev \in Revisions
    /\ apiKey \in BOOLEAN
    /\ docs \in SyncDocs
    /\ pc = "main"
    /\ queries = <<>>
    /\ changedFiles = <<>>
    /\ fileIdx = 0
    /\ functions = <<>>
    /\ funcIdx = 0
    /\ attempt = 0
    /\ calls = <<>>
    /\ sleeps = <<>>
    /\ newDocs = <<>>
    /\ fileContent = <<>>
    /\ patchArgs = <<>>
    /\ patchRes = "none"
    /\ docsAtStart = docs
    /\ lastPatch = [n \in FunctionNames |-> Unpatched]
    /\ exitCode = 0
    /\ fatal = NoError
    /\ console = <<"log: started">>
    /\ faults = {}
    /\ source = NoSource
    /\ filePaths = <<>>
    /\ disk = <<>>
    /\ results = <<>>
    /\ fileNo = 0
    /\ apc = "idle"
    /\ report = <<>>

Init == repo \in SyncRepos /\ MainInit

Next ==
    \/ MainStart
    \/ MainExtract
    \/ GenerateEnter
    \/ GenerateFetch
    \/ GenerateSleep
    \/ MainUpdateDocs

Spec == Init /\ [][Next]_vars

-----------------------------------------------------------------------------
(* getChangedFiles on every diff of up to MaxDiffLen paths *)

MaxDiffLen == 3

PathSrcD == <<"src/", "d", ".ts">>
SelectPaths == {PathSrcA, PathSrcB, PathLibC, PathSrcD}

\* the diffs: a path occurs once in a diff summary
SelectDiffs ==
    {l \in UNION {[1..n -> SelectPaths] : n \in 0..MaxDiffLen} :
        \A i, j \in 1..Len(l) : i # j => l[i] # l[j]}

SelectRepos ==
    {Repo(TRUE, LogOf(n), DiffOf(l), <<PathSrcA, PathSrcB>>) : n \in {2, 3}, l \in SelectDiffs}

InitSelect == repo \in SelectRepos /\ MainInit

NextSelect == MainStart

SpecSelect == InitSelect /\ [][NextSelect]_vars

-----------------------------------------------------------------------------
(* extractExportedFunctions on every text of up to MaxExportStatements statements *)

MaxExportStatements == 3

ExportStatements == {Stmt(kind, name) : kind \in StmtKinds, name \in FunctionNames}

ExportSources ==
    {Unreadable, Malformed}
    \cup {Source(stmts) :
             stmts \in UNION {[1..n -> ExportStatements] : n \in 0..MaxExportStatements}}

\* a working tree of one source file
InitExported ==
    /\ repo = Repo(FALSE, Failed, Failed, <<PathSrcA>>)
    /\ MainInit

MainExtractAny == MainExtractOf(ExportSources)

NextExported == MainStart \/ MainExtractAny

SpecExported == InitExported /\ [][NextExported]_vars

-----------------------------------------------------------------------------
(* src/parser.js: syntax trees *)

\* A node of the tree that @babel/parser gives is an object.  Its own
\* enumerable properties, in the order of `for (const key in node)`, are its
\* fields: a field holds a scalar (string, number, boolean, null), an object
\* or an array of objects.  What the code reads of a node by name is kept
\* beside the fields: type (node.type), name (node.name of an identifier),
\* line (start.line of a location object; 0: none), async, generator, and
\* kind (node.kind of a method).
Field(key, kind, items) == [key |-> key, kind |-> kind, items |-> items]
ScalarField(key) == Field(key, "scalar", <<>>)
ObjectField(key, node) == Field(key, "object", <<node>>)
ArrayField(key, nodes) == Field(key, "array", nodes)

Node(type, name, line, async, generator, kind, fields) ==
    [type |-> type, name |-> name, line |-> line, async |-> async,
     generator |-> generator, kind |-> kind, fields |-> fields]

\* node[key] as a condition (`node.id ?`, `node.loc ?`): an object is there
has(node, key) ==
    \E f \in 1..Len(node.fields) : node.fields[f].key = key /\ node.fields[f].kind = "object"

\* node[key], an object
get(node, key) ==
    LET f == CHOOSE f \in 1..Len(node.fields) : node.fields[f].key = key
    IN  node.fields[f].items[1]

\* node[key].length, of an array
lengthOf(node, key) ==
    LET f == CHOOSE f \in 1..Len(node.fields) : node.fields[f].key = key
    IN  Len(node.fields[f].items)

\* node[key], an array
itemsOf(node, key) ==
    LET f == CHOOSE f \in 1..Len(node.fields) : node.fields[f].key = key
    IN  node.fields[f].items

\* the nodes of the trees: a location, an identifier, and the statements and
\* expressions that hold functions
Loc(line) == Node("", "", line, FALSE, FALSE, "", <<ScalarField("start"), ScalarField("end")>>)
Identifier(name, line) ==
    Node("Identifier", name, 0, FALSE, FALSE, "",
         <<ScalarField("type"), ObjectField("loc", Loc(line)), ScalarField("name")>>)
BlockStatement(body, line) ==
    Node("BlockStatement", "", 0, FALSE, FALSE, "",
         <<ScalarField("type"), ObjectField("loc", Loc(line)), ArrayField("body", body)>>)
FunctionDeclaration(name, line, async, generator, params, body) ==
    Node("FunctionDeclaration", "", 0, async, generator, "",
         <<ScalarField("type"), ObjectField("loc", Loc(line)),
           ObjectField("id", Identifier(name, line)),
           ScalarField("generator"), ScalarField("async"),
           ArrayField("params", params), ObjectField("body", BlockStatement(body, line))>>)
FunctionExpression(name, line, async, generator, params, body) ==
    Node("FunctionExpression", "", 0, async, generator, "",
         <<ScalarField("type"), ObjectField("loc", Loc(line)),
           IF name = "" THEN ScalarField("id") ELSE ObjectField("id", Identifier(name, line)),
           ScalarField("generator"), ScalarField("async"),
           ArrayField("params", params), ObjectField("body", BlockStatement(body, line))>>)
ArrowFunctionExpression(line, async, params, body) ==
    Node("ArrowFunctionExpression", "", 0, async, FALSE, "",
         <<ScalarField("type"), ObjectField("loc", Loc(line)), ScalarField("id"),
           ScalarField("generator"), ScalarField("async"),
           ArrayField("params", params), ObjectField("body", BlockStatement(body, line))>>)
\* `const name = init;`
VariableDeclaration(name, line, init) ==
    Node("VariableDeclaration", "", 0, FALSE, FALSE, "const",
         <<ScalarField("type"), ObjectField("loc", Loc(line)),
           ArrayField("declarations",
               <<Node("VariableDeclarator", "", 0, FALSE, FALSE, "",
                      <<ScalarField("type"), ObjectField("loc", Loc(line)),
                        ObjectField("id", Identifier(name, line)),
                        ObjectField("init", init)>>)>>),
           ScalarField("kind")>>)
\* `return;`
ReturnStatement(line) ==
    Node("ReturnStatement", "", 0, FALSE, FALSE, "",
         <<ScalarField("type"), ObjectField("loc", Loc(line)), ScalarField("argument")>>)
\* the key of a property or of a method: an identifier, or, for a computed key
\* (name ""), an expression that has no name
PropertyKey(name, line) ==
    IF name # "" THEN Identifier(name, line)
    ELSE Node("TemplateLiteral", "", 0, FALSE, FALSE, "",
              <<ScalarField("type"), ObjectField("loc", Loc(line)),
                ArrayField("expressions", <<>>), ArrayField("quasis", <<>>)>>)
\* a method of a class body, as @babel/parser gives it without the estree plugin
ClassMethod(name, line, kind, async, generator, params, body) ==
    Node("ClassMethod", "", 0, async, generator, kind,
         <<ScalarField("type"), ObjectField("loc", Loc(line)), ScalarField("static"),
           ObjectField("key", PropertyKey(name, line)), ScalarField("computed"),
           ScalarField("kind"), ScalarField("id"),
           ScalarField("generator"), ScalarField("async"),
           ArrayField("params", params), ObjectField("body", BlockStatement(body, line))>>)
\* a method of an object literal, as @babel/parser gives it without the estree plugin
ObjectMethod(name, line, kind, async, generator, params, body) ==
    Node("ObjectMethod", "", 0, async, generator, kind,
         <<ScalarField("type"), ObjectField("loc", Loc(line)), ScalarField("method"),
           ObjectField("key", PropertyKey(name, line)), ScalarField("computed"),
           ScalarField("kind"), ScalarField("id"),
           ScalarField("generator"), ScalarField("async"),
           ArrayField("params", params), ObjectField("body", BlockStatement(body, line))>>)
\* `name: value` in an object literal
ObjectProperty(name, line, value) ==
    Node("ObjectProperty", "", 0, FALSE, FALSE, "",
         <<ScalarField("type"), ObjectField("loc", Loc(line)), ScalarField("method"),
           ObjectField("key", PropertyKey(name, line)), ScalarField("computed"),
           ScalarField("shorthand"), ObjectField("value", value)>>)
\* `{ properties }`
ObjectExpression(line, properties) ==
    Node("ObjectExpression", "", 0, FALSE, FALSE, "",
         <<ScalarField("type"), ObjectField("loc", Loc(line)),
           ArrayField("properties", properties)>>)
\* `class name { methods }`
ClassDeclaration(name, line, methods) ==
    Node("ClassDeclaration", "", 0, FALSE, FALSE, "",
         <<ScalarField("type"), ObjectField("loc", Loc(line)),
           ObjectField("id", Identifier(name, line)), ScalarField("superClass"),
           ObjectField("body",
               Node("ClassBody", "", 0, FALSE, FALSE, "",
                    <<ScalarField("type"), ObjectField("loc", Loc(line)),
                      ArrayField("body", methods)>>))>>)
\* the root: File, and its Program
File(body) ==
    Node("File", "", 0, FALSE, FALSE, "",
         <<ScalarField("type"), ObjectField("loc", Loc(1)), ArrayField("errors", <<>>),
           ObjectField("program",
               Node("Program", "", 0, FALSE, FALSE, "",
                    <<ScalarField("type"), ObjectField("loc", Loc(1)),
                      ScalarField("sourceType"), ArrayField("body", body)>>)),
           ArrayField("comments", <<>>)>>)

-----------------------------------------------------------------------------
(* src/parser.js: extractFunctions and parseFile *)

\* the object pushed for a node; kind is there for a method only
FunctionInfo(type, name, line, async, generator, params, kind) ==
    [type |-> type, name |-> name, line |-> line, async |-> async,
     generator |-> generator, params |-> params, kind |-> kind]

\* `node.loc ? node.loc.start.line : null` (0: null)
lineOf(node) == IF has(node, "loc") THEN get(node, "loc").line ELSE 0

\* a slip in the name below: the identifier is not looked at
declaredName_Anonymous(node) == "anonymous"

\* `node.id ? node.id.name : 'anonymous'` of a declaration
declaredName(node) == IF has(node, "id") THEN get(node, "id").name ELSE "anonymous"

\* a slip in the name below: the name of a declaration is given to an expression too
expressionName_FromId(node) == declaredName(node)

\* the name of an arrow function or of a function expression: a literal
expressionName(node) == "anonymous"

\* the three tests of traverse on a node, and what each pushes
pushed(node) ==
    (IF node.type = "FunctionDeclaration"
     THEN <<FunctionInfo("function", declaredName(node),
                         lineOf(node), node.async, node.generator,
                         lengthOf(node, "params"), "")>>
     ELSE <<>>)
    \o (IF node.type = "ArrowFunctionExpression" \/ node.type = "FunctionExpression"
        THEN <<FunctionInfo(IF node.type = "ArrowFunctionExpression" THEN "arrow" ELSE "expression",
                            expressionName(node), lineOf(node), node.async, node.generator,
                            lengthOf(node, "params"), "")>>
        ELSE <<>>)
    \o (IF node.type = "MethodDefinition"
        THEN <<FunctionInfo("method",
                            IF get(node, "key").name # "" THEN get(node, "key").name ELSE "computed",
                            lineOf(node), get(node, "value").async, get(node, "value").generator,
                            lengthOf(get(node, "value"), "params"), node.kind)>>
        ELSE <<>>)

\* a slip in the loop over the keys below: a node that was recorded is not
\* descended into
descends_UnlessRecorded(node) == pushed(node) = <<>>

\* the loop over the keys is run for every node, recorded or not
descends(node) == TRUE

RECURSIVE traverse(_)
RECURSIVE traverseFields(_)
RECURSIVE traverseItems(_)
\* traverse(node): what it pushes, in the order it pushes
traverse(node) ==
    pushed(node) \o (IF descends(node) THEN traverseFields(node.fields) ELSE <<>>)
\* the loop over the keys of a node: objects and arrays are taken, scalars are not
traverseFields(fields) ==
    IF fields = <<>> THEN <<>>
    ELSE (IF Head(fields).kind = "scalar" THEN <<>> ELSE traverseItems(Head(fields).items))
         \o traverseFields(Tail(fields))
\* node[key].forEach(traverse), or traverse(node[key]) of a single object
traverseItems(items) ==
    IF items = <<>> THEN <<>> ELSE traverse(Head(items)) \o traverseItems(Tail(items))

\* A file of the analyzed tree: whether it can be read, its text (a sequence of
\* characters), and what parse() gives for the text: a tree, or a SyntaxError.
AnalyzedFile(readable, text, valid, ast) ==
    [readable |-> readable, text |-> text, valid |-> valid, ast |-> ast]

\* extractFunctions(code): a parse error is logged and gives no function
extractFunctions(file) ==
    IF file.valid
    THEN [functions |-> traverse(file.ast), console |-> <<>>]
    ELSE [functions |-> <<>>, console |-> <<"warn: Parse error", "Unexpected token">>]

RECURSIVE split(_, _)
\* String.prototype.split for a separator of one character
split(code, sep) ==
    IF indexOf(code, sep) = -1 THEN <<code>>
    ELSE <<substring(code, 0, indexOf(code, sep))>>
         \o split(substringFrom(code, indexOf(code, sep) + 1), sep)

\* the object parseFile returns; error "": the property is not there
FileAnalysis(filePath, fns, functionCount, lineCount, size, error) ==
    [filePath |-> filePath, functions |-> fns, functionCount |-> functionCount,
     lineCount |-> lineCount, size |-> size, error |-> error]

\* parseFile(filePath): only the read can throw inside its try block
parseFile(filePath, file) ==
    IF ~file.readable
    THEN FileAnalysis(filePath, <<>>, 0, 0, 0, "ENOENT: no such file or directory")
    ELSE LET fns == extractFunctions(file).functions
         IN  FileAnalysis(filePath, fns, Len(fns), Len(split(file.text, NL)), Len(file.text), "")

-----------------------------------------------------------------------------
(* unnamed/part_000: analyzeFiles *)

\* the results object before the loop
emptyResults(paths) ==
    [files |-> <<>>,
     summary |-> [totalFiles |-> Len(paths), successfullyParsed |-> 0, totalFunctions |-> 0,
                  totalLines |-> 0, totalSize |-> 0, errors |-> <<>>]]

\* a slip in the push below: a record with an error is not kept
pushFile_OnlyParsed(files, fileAnalysis) ==
    IF fileAnalysis.error # "" THEN files ELSE Append(files, fileAnalysis)

\* results.files.push(fileAnalysis)
pushFile(files, fileAnalysis) == Append(files, fileAnalysis)

\* a slip in the test below: no record is taken for a failed one
hasError_Never(fileAnalysis) == FALSE

\* the test `fileAnalysis.error`: the property is there and not empty
hasError(fileAnalysis) == fileAnalysis.error # ""

\* a slip in the body of the loop below: the count of parsed files is raised
\* before the test of the error, for every file
analyzeOne_AlwaysParsed(res, filePath, file) ==
    LET fileAnalysis == parseFile(filePath, file)
        summary == [res.summary EXCEPT !.successfullyParsed = @ + 1]
    IN  [files |-> pushFile(res.files, fileAnalysis),
         summary |->
            IF hasError(fileAnalysis)
            THEN [summary EXCEPT !.errors =
                     Append(@, [file |-> filePath, error |-> fileAnalysis.error])]
            ELSE [summary EXCEPT !.totalFunctions = @ + fileAnalysis.functionCount,
                                 !.totalLines = @ + fileAnalysis.lineCount,
                                 !.totalSize = @ + fileAnalysis.size]]

\* the body of the loop for one path.  parseFile catches what it throws, so the
\* catch block of the loop is not reached for a path that is a string.
analyzeOne(res, filePath, file) ==
    LET fileAnalysis == parseFile(filePath, file)
        summary == res.summary
    IN  [files |-> pushFile(res.files, fileAnalysis),
         summary |->
            IF hasError(fileAnalysis)
            THEN [summary EXCEPT !.errors =
                     Append(@, [file |-> filePath, error |-> fileAnalysis.error])]
            ELSE [summary EXCEPT !.successfullyParsed = @ + 1,
                                 !.totalFunctions = @ + fileAnalysis.functionCount,
                                 !.totalLines = @ + fileAnalysis.lineCount,
                                 !.totalSize = @ + fileAnalysis.size]]

\* analyzeFiles up to the loop
AnalyzeStart ==
    /\ apc = "start"
    /\ results' = emptyResults(filePaths)
    /\ fileNo' = 0
    /\ apc' = "loop"
    /\ UNCHANGED <<filePaths, disk, report>>
    /\ UNCHANGED syncVars

\* one pass of the loop: the next path, with the file the disk holds for it
AnalyzeFile ==
    /\ apc = "loop"
    /\ fileNo < Len(filePaths)
    /\ results' = analyzeOne(results, filePaths[fileNo + 1], disk[filePaths[fileNo + 1]])
    /\ fileNo' = fileNo + 1
    /\ UNCHANGED <<filePaths, disk, apc, report>>
    /\ UNCHANGED syncVars

\* the end of the loop: return results
AnalyzeReturn ==
    /\ apc = "loop"
    /\ fileNo = Len(filePaths)
    /\ apc' = "returned"
    /\ UNCHANGED <<filePaths, disk, results, fileNo, report>>
    /\ UNCHANGED syncVars

-----------------------------------------------------------------------------
(* unnamed/part_000: generateReport *)

\* the limit of the list of top files: slice(0, 10)
TOP_FILES == 10

RECURSIVE countByType(_, _)
\* functionsByType: the count of each type, the types in the order in which
\* the first function of each was met (the order of Object.entries)
countByType(funcs, counts) ==
    IF funcs = <<>> THEN counts
    ELSE LET type == Head(funcs).type
             known == {i \in 1..Len(counts) : counts[i].type = type}
         IN  countByType(Tail(funcs),
                 IF known = {}
                 THEN Append(counts, [type |-> type, count |-> 1])
                 ELSE [i \in 1..Len(counts) |->
                          IF i \in known THEN [counts[i] EXCEPT !.count = @ + 1] ELSE counts[i]])

RECURSIVE functionsByType(_, _)
\* files.forEach(file => file.functions.forEach(...))
functionsByType(files, counts) ==
    IF files = <<>> THEN counts
    ELSE functionsByType(Tail(files), countByType(Head(files).functions, counts))

\* a slip in the comparison below: the order is ascending
compareFiles_Ascending(a, b) == a.functionCount - b.functionCount

\* (a, b) => b.functionCount - a.functionCount
compareFiles(a, b) == b.functionCount - a.functionCount

\* one element put into a sorted array: behind every element that does not
\* have to come after it
insertFile(sorted, file) ==
    LET later == {i \in 1..Len(sorted) : compareFiles(sorted[i], file) > 0}
        at == IF later = {} THEN Len(sorted) + 1
              ELSE CHOOSE i \in later : \A j \in later : i <= j
    IN  SubSeq(sorted, 1, at - 1) \o <<file>> \o SubSeq(sorted, at, Len(sorted))

RECURSIVE sortFiles(_, _)
\* Array.prototype.sort with compareFiles: a stable sort (ECMAScript 2019)
sortFiles(files, sorted) ==
    IF files = <<>> THEN sorted
    ELSE sortFiles(Tail(files), insertFile(sorted, Head(files)))

\* Array.prototype.slice(0, n)
slice(files, n) == SubSeq(files, 1, IF Len(files) < n THEN Len(files) ELSE n)

\* files.filter(f => !f.error).sort(...).slice(0, 10)
sortedFiles(files) ==
    slice(sortFiles(SelectSeq(files, LAMBDA f : ~hasError(f)), <<>>), TOP_FILES)

\* generateReport(analysisResults): the values the text of the report is made
\* of, section by section; the section of the errors is there if there is one
generateReport(analysisResults) ==
    [summary |-> [totalFiles |-> analysisResults.summary.totalFiles,
                  successfullyParsed |-> analysisResults.summary.successfullyParsed,
                  totalFunctions |-> analysisResults.summary.totalFunctions,
                  totalLines |-> analysisResults.summary.totalLines,
                  totalSize |-> analysisResults.summary.totalSize],
     functionsByType |-> functionsByType(analysisResults.files, <<>>),
     sortedFiles |-> sortedFiles(analysisResults.files),
     errors |-> analysisResults.summary.errors]

\* analyzeCodebase after analyzeFiles: the report is made and logged
Report ==
    /\ apc = "returned"
    /\ report' = generateReport(results)
    /\ apc' = "reported"
    /\ UNCHANGED <<filePaths, disk, results, fileNo>>
    /\ UNCHANGED syncVars

MaxFiles == 3

AnalyzePaths == {"a.js", "b.js", "c.js"}

\* a text of two lines whose tree holds a declaration with an arrow function in it
TwoFunctions ==
    AnalyzedFile(TRUE, <<"f", NL, "g">>, TRUE,
        File(<<FunctionDeclaration("f", 1, FALSE, FALSE, <<Identifier("a", 1)>>,
                   <<VariableDeclaration("g", 2, ArrowFunctionExpression(2, FALSE, <<>>, <<>>))>>)>>))

\* the files: one that cannot be read, a malformed text, an empty text, a valid one
AnalyzedFiles ==
    {AnalyzedFile(FALSE, <<>>, FALSE, File(<<>>)),
     AnalyzedFile(TRUE, <<"f", "(", NL>>, FALSE, File(<<>>)),
     AnalyzedFile(TRUE, <<>>, TRUE, File(<<>>)),
     TwoFunctions}

\* the documentation agent is not running
SyncIdle ==
    /\ rev = DocAgent
    /\ apiKey = FALSE
    /\ repo = Repo(FALSE, Failed, Failed, <<>>)
    /\ docs = <<>>
    /\ pc = "done"
    /\ queries = <<>>
    /\ changedFiles = <<>>
    /\ fileIdx = 0
    /\ functions = <<>>
    /\ funcIdx = 0
    /\ attempt = 0
    /\ calls = <<>>
    /\ sleeps = <<>>
    /\ newDocs = <<>>
    /\ fileContent = <<>>
    /\ patchArgs = <<>>
    /\ patchRes = "none"
    /\ docsAtStart = <<>>
    /\ lastPatch = [n \in FunctionNames |-> Unpatched]
    /\ exitCode = 0
    /\ fatal = NoError
    /\ console = <<>>
    /\ faults = {}
    /\ source = NoSource

InitAnalyze ==
    /\ SyncIdle
    /\ filePaths \in UNION {[1..n -> AnalyzePaths] : n \in 0..MaxFiles}
    /\ disk \in [AnalyzePaths -> AnalyzedFiles]
    /\ results = <<>>
    /\ fileNo = 0
    /\ apc = "start"
    /\ report = <<>>

NextAnalyze ==
    \/ AnalyzeStart
    \/ AnalyzeFile
    \/ AnalyzeReturn
    \/ Report

SpecAnalyze == InitAnalyze /\ [][NextAnalyze]_vars

-----------------------------------------------------------------------------
(* extractFunctions on every tree of a family *)

MaxStatements == 2

\* the statements that hold one function-like node, with a body of statements
FunctionStatements(line, bodies) ==
    {FunctionDeclaration("f", line, FALSE, FALSE, <<>>, b) : b \in bodies}
    \cup {VariableDeclaration("v", line, ArrowFunctionExpression(line, FALSE, <<>>, b)) :
             b \in bodies}
    \cup {VariableDeclaration("w", line, FunctionExpression("", line, FALSE, FALSE, <<>>, b)) :
             b \in bodies}
    \cup {ClassDeclaration("C", line,
                           <<ClassMethod("m", line, "method", FALSE, FALSE, <<>>, b)>>) :
             b \in bodies}

\* the sequences of up to MaxStatements statements
StatementLists(stmts) == UNION {[1..n -> stmts] : n \in 0..MaxStatements}

\* trees with functions nested in functions and in methods, and side by side
ExtractTrees ==
    {File(body) : body \in StatementLists(FunctionStatements(1,
                               StatementLists(FunctionStatements(2, {<<>>}))))}

InitExtract ==
    /\ SyncIdle
    /\ filePaths = <<"a.js">>
    /\ disk \in {[p \in AnalyzePaths |-> AnalyzedFile(TRUE, <<"f">>, TRUE, t)] : t \in ExtractTrees}
    /\ results = <<>>
    /\ fileNo = 0
    /\ apc = "start"
    /\ report = <<>>

SpecExtract == InitExtract /\ [][NextAnalyze]_vars

-----------------------------------------------------------------------------
(* extractFunctions on declarations, expressions and methods of every shape *)

\* a list of n parameters
Params(n, line) == [i \in 1..n |-> Identifier(IF i = 1 THEN "a" ELSE "b", line)]

\* the shapes of a function: name, async, generator, number of parameters
DeclarationShapes == {"add", "f"} \X BOOLEAN \X BOOLEAN \X {0, 2}

\* `function name(params) { return; }` at a line
DeclarationOf(shape, line) ==
    FunctionDeclaration(shape[1], line, shape[2], shape[3], Params(shape[4], line),
                        <<ReturnStatement(line)>>)

\* texts of up to MaxStatements declarations, one to a line
DeclarationLists ==
    {[i \in 1..Len(shapes) |-> DeclarationOf(shapes[i], i)] :
        shapes \in StatementLists(DeclarationShapes)}

\* the expressions that are functions: arrow functions, and function
\* expressions with and without a name of their own
FunctionValues(line) ==
    {ArrowFunctionExpression(line, a, Params(n, line), <<>>) : a \in BOOLEAN, n \in {0, 1}}
    \cup {FunctionExpression(name, line, FALSE, g, <<>>, <<>>) :
              name \in {"", "named"}, g \in BOOLEAN}

\* a function as the initializer of a variable and as the value of a property
ExpressionStatements(line) ==
    {VariableDeclaration("v", line, fn) : fn \in FunctionValues(line)}
    \cup {VariableDeclaration("o", line, ObjectExpression(line, <<ObjectProperty("p", line, fn)>>)) :
              fn \in FunctionValues(line)}

MethodShapes == {"m", ""} \X {"method", "get"} \X BOOLEAN \X {0, 1}

\* classes of up to MaxStatements methods, and object literals of one method
MethodStatements(line) ==
    {ClassDeclaration("C", line,
         [i \in 1..Len(shapes) |->
             ClassMethod(shapes[i][1], line + i, shapes[i][2], shapes[i][3], FALSE,
                         Params(shapes[i][4], line + i), <<>>)]) :
        shapes \in StatementLists(MethodShapes)}
    \cup {VariableDeclaration("o", line, ObjectExpression(line,
              <<ObjectMethod("m", line, "method", a, g, <<>>, <<>>)>>)) :
              a \in BOOLEAN, g \in BOOLEAN}

RecordTrees ==
    {File(body) : body \in DeclarationLists}
    \cup {File(<<s>>) : s \in ExpressionStatements(1) \cup MethodStatements(1)}
    \cup {File(<<DeclarationOf(<<"f", FALSE, FALSE, 0>>, 1), s>>) :
              s \in ExpressionStatements(2) \cup MethodStatements(2)}

InitRecords ==
    /\ SyncIdle
    /\ filePaths = <<"a.js">>
    /\ disk \in {[p \in AnalyzePaths |-> AnalyzedFile(TRUE, <<"f">>, TRUE, t)] : t \in RecordTrees}
    /\ results = <<>>
    /\ fileNo = 0
    /\ apc = "start"
    /\ report = <<>>

SpecRecords == InitRecords /\ [][NextAnalyze]_vars

-----------------------------------------------------------------------------
(* analyzeCodebase on short and on long lists of files *)

\* how many times a list is repeated to make a long one
ReportRepeats == 4

ReportPaths == {"a.js", "b.js", "c.js", "d.js", "e.js"}

\* a text of one line that declares one function
OneFunction ==
    AnalyzedFile(TRUE, <<"f">>, TRUE, File(<<DeclarationOf(<<"f", FALSE, FALSE, 0>>, 1)>>))

\* a text of one line that holds one arrow function
OneArrow ==
    AnalyzedFile(TRUE, <<"v">>, TRUE,
        File(<<VariableDeclaration("v", 1, ArrowFunctionExpression(1, FALSE, <<>>, <<>>))>>))

\* files of 2, 1, 1 and 0 functions, and one that cannot be read
ReportDisk ==
    [p \in ReportPaths |->
        CASE p = "a.js" -> TwoFunctions
          [] p = "b.js" -> OneFunction
          [] p = "c.js" -> OneArrow
          [] p = "d.js" -> AnalyzedFile(FALSE, <<>>, FALSE, File(<<>>))
          [] OTHER -> AnalyzedFile(TRUE, <<>>, TRUE, File(<<>>))]

RECURSIVE Repeat(_, _)
Repeat(list, n) == IF n = 0 THEN <<>> ELSE list \o Repeat(list, n - 1)

\* lists of up to MaxFiles paths, and lists of MaxFiles paths repeated
ReportLists ==
    UNION {[1..n -> ReportPaths] : n \in 0..MaxFiles}
    \cup {Repeat(l, ReportRepeats) : l \in [1..MaxFiles -> ReportPaths]}

InitReport ==
    /\ SyncIdle
    /\ filePaths \in ReportLists
    /\ disk = ReportDisk
    /\ results = <<>>
    /\ fileNo = 0
    /\ apc = "start"
    /\ report = <<>>

SpecReport == InitReport /\ [][NextAnalyze]_vars

-----------------------------------------------------------------------------
(* Claims about generateWithGemini *)

\* what a call met, by class
MetClientError(m) == m.status \in {ToString(s) : s \in {t \in Statuses : isClientError(t)}}
MetTransient(m) ==
    \/ m.status = "exception"
    \/ m.status \in {ToString(s) : s \in {t \in Statuses : t >= 500 \/ t = 429}}
MetEmptyText(m) == m.status = "200" /\ ~m.jsonFailed /\ m.text = <<>>

Range(l) == {l[i] : i \in 1..Len(l)}

\* C1: a call that meets a client error status (4xx other than 429) is the last
\* call of its invocation, and the invocation has failed at once: the process
\* is ending with status 1 and no sleep is pending.
C1_ClientErrorIsNotRetried ==
    \A i \in 1..Len(calls) :
        MetClientError(calls[i]) => i = Len(calls) /\ pc = "done" /\ exitCode = 1

\* C2: in scripts/doc-agent.js, after attempt k < N met a transient failure
\* (status >= 500, 429 or an exception), the client is sleeping before attempt
\* k+1 or has slept and is issuing it; and after 429, 429, 200 with a generated
\* text the call has returned that text, on the third attempt.
C2_TransientIsRetried ==
    rev = DocAgent =>
        /\ \A k \in 1..(MAX_RETRIES - 1) :
              Len(calls) = k /\ MetTransient(calls[k]) =>
                  \/ pc = "sleep" /\ attempt = k /\ Len(sleeps) = k - 1
                  \/ pc = "fetch" /\ attempt = k + 1 /\ Len(sleeps) = k
        /\ ( /\ Len(calls) = 3
             /\ calls[1].status = "429" /\ calls[2].status = "429"
             /\ calls[3].status = "200" /\ ~calls[3].jsonFailed /\ calls[3].text # <<>> )
           => /\ attempt = 3
              /\ newDocs = calls[3].text
              /\ \/ pc = "update"
                 \/ pc = "done" /\ patchArgs = <<functions[funcIdx].name, calls[3].text>>

C2_Witness ==
    /\ rev = DocAgent
    /\ Len(calls) = 3
    /\ calls[1].status = "429" /\ calls[2].status = "429" /\ calls[3].status = "200"
    /\ pc = "update"
    /\ newDocs = <<"text">>
    /\ sleeps = <<2000, 4000>>

\* C3: in scripts/doc-agent.js, when all N attempts met a transient failure the
\* call has failed and the failure's message carries the cause met on the last
\* attempt: the last status, or the message of the last exception.
C3_ExhaustedCarriesLastCause ==
    ( /\ rev = DocAgent
      /\ pc = "done"
      /\ Len(calls) = MAX_RETRIES
      /\ \A i \in 1..Len(calls) : MetTransient(calls[i]) )
    => /\ exitCode = 1
       /\ IF calls[MAX_RETRIES].status = "exception"
          THEN Range(MsgFetchFailed) \subseteq Range(fatal)
          ELSE calls[MAX_RETRIES].status \in Range(fatal)

\* C4: the i-th sleep of an invocation follows its i-th failed attempt and lasts
\* 1000 ms x 2^i: 2000 ms after attempt 1, 4000 ms after attempt 2; whatever the
\* failures were, and so the delays strictly increase.
C4_BackoffSchedule ==
    /\ Len(sleeps) <= Len(calls)
    /\ \A i \in 1..Len(sleeps) :
          sleeps[i] = (CASE i = 1 -> 2000 [] i = 2 -> 4000 [] i = 3 -> 8000 [] OTHER -> 0)
    /\ \A i, j \in 1..Len(sleeps) : i < j => sleeps[i] < sleeps[j]

C4_Witness ==
    /\ Len(sleeps) = 2
    /\ calls[1].status = "exception"
    /\ calls[2].status = "500"
    /\ sleeps[1] = 2000 /\ sleeps[2] = 4000

\* C5: when the last call of an invocation met a 2xx response whose generated
\* text is missing or empty, the invocation has failed: nothing is returned to
\* be written, no retry follows, and the process is ending with status 1.
C5_EmptyTextIsInvalidResponse ==
    \A i \in 1..Len(calls) :
        MetEmptyText(calls[i]) => i = Len(calls) /\ pc = "done" /\ exitCode = 1

-----------------------------------------------------------------------------
(* Claims about updateDocsFile and the documents main leaves *)

IsPrefix(p, l) == Len(p) <= Len(l) /\ SubSeq(l, 1, Len(p)) = p
IsSuffix(q, l) == Len(q) <= Len(l) /\ SubSeq(l, Len(l) - Len(q) + 1, Len(l)) = q

\* the text up to and including the first start sentinel of a name, and the
\* text from its first end sentinel onward
UpToStart(content, name) == SubSeq(content, 1, indexOf(content, startMarker(name)) + 1)
FromEnd(content, name) == SubSeq(content, indexOf(content, endMarker(name)) + 1, Len(content))

BothFound(content, name) ==
    indexOf(content, startMarker(name)) # -1 /\ indexOf(content, endMarker(name)) # -1

\* C6: a write of updateDocsFile changes the document only strictly between the
\* two sentinels of the name: the document read is its part up to the start
\* sentinel, an interior, its part from the end sentinel; the document written
\* is the same two parts around another interior.
C6_OnlyTheInteriorChanges ==
    patchRes = "written" =>
        LET name == patchArgs[1]
            before == UpToStart(fileContent, name)
            after == FromEnd(fileContent, name)
        IN  /\ BothFound(fileContent, name)
            /\ Len(before) + Len(after) <= Len(fileContent)
            /\ Len(before) + Len(after) <= Len(docs)
            /\ IsPrefix(before, docs)
            /\ IsSuffix(after, docs)

\* C7: a call of updateDocsFile that repeats the arguments of the call before it,
\* which wrote the document, leaves the document as that call wrote it.
C7_Idempotent ==
    [][ ( /\ pc = "update"
          /\ patchRes = "written"
          /\ patchArgs = <<functions[funcIdx].name, newDocs>>
          /\ patchRes' = "written" )
        => docs' = docs ]_vars

\* C8: when updateDocsFile has read a document that lacks the start or the end
\* sentinel of the name, it writes nothing, logs the warning and returns, and
\* main goes on: to the next function, to the next file, or to its normal end.
C8_MissingMarkersSkip ==
    [][ ( /\ pc = "update"
          /\ ~BothFound(docs, functions[funcIdx].name)
          /\ patchRes' # "none" )
        => /\ docs' = docs
           /\ patchRes' = "skipped"
           /\ "warn: markers not found" \in Range(console')
           /\ exitCode' = 0
           /\ fatal' = NoError
           /\ \/ pc' = "generate" /\ funcIdx' = funcIdx + 1 /\ fileIdx' = fileIdx
              \/ pc' = "extract" /\ fileIdx' = fileIdx + 1
              \/ pc' = "done" /\ fileIdx = Len(changedFiles) /\ funcIdx = Len(functions) ]_vars

C8_Witness ==
    /\ patchRes = "skipped"
    /\ patchArgs[1] = "bar"
    /\ indexOf(docs, startMarker("bar")) # -1
    /\ indexOf(docs, endMarker("bar")) = -1
    /\ docs = docsAtStart
    /\ pc = "extract"
    /\ fileIdx = 2
    /\ exitCode = 0

\* the marker region of a name: found when both sentinels occur, the start
\* sentinel first; its interior is the text strictly between them
Region(content, name) ==
    LET s == indexOf(content, startMarker(name))
        e == indexOf(content, endMarker(name))
    IN  IF s # -1 /\ e # -1 /\ s < e
        THEN [found |-> TRUE, interior |-> SubSeq(content, s + 2, e)]
        ELSE [found |-> FALSE, interior |-> <<>>]

\* the interior that a write gives the region
Interior(r, content) ==
    IF r = DocAgent THEN <<NL>> \o content \o <<NL>>
    ELSE <<NL, NL>> \o trim(content) \o <<NL, NL>>

\* C9: when a run has ended with status 0, every region of the document it began
\* with whose name was not patched is still there with the same interior, and
\* every patched name has a region that holds the content last written for it.
C9_RegionsAfterRun ==
    (pc = "done" /\ exitCode = 0) =>
        \A n \in FunctionNames :
            IF lastPatch[n].done
            THEN Region(docs, n) = [found |-> TRUE, interior |-> Interior(rev, lastPatch[n].content)]
            ELSE Region(docsAtStart, n).found => Region(docs, n) = Region(docsAtStart, n)

-----------------------------------------------------------------------------
(* Claims about getChangedFiles *)

\* C10: in a working tree under version control whose commit count is below 2,
\* getChangedFiles has returned the files of the source pattern and has issued
\* no diff query.
C10_FewCommitsFallBack ==
    (pc # "main" /\ repo.isRepo /\ repo.log.ok /\ repo.log.total < 2) =>
        /\ changedFiles = repo.glob
        /\ "diff" \notin Range(queries)
        /\ "glob" \in Range(queries)

C10_Witness ==
    /\ pc = "extract"
    /\ repo.isRepo /\ repo.log.ok /\ repo.log.total = 1
    /\ changedFiles = <<PathSrcA, PathSrcB>>
    /\ queries # <<>>
    /\ "diff" \notin Range(queries)

\* C11: in a working tree that is not under version control, getChangedFiles
\* has returned the files of the source pattern and has decided so before any
\* commit-count or diff query: it has issued neither.
C11_NoRepoDecidedFirst ==
    (pc # "main" /\ ~repo.isRepo) =>
        /\ changedFiles = repo.glob
        /\ "log" \notin Range(queries)
        /\ "diff" \notin Range(queries)

\* the paths of a diff that the filter keeps: src/ at the start, .js at the end
Kept(path) == path # <<>> /\ path[1] = "src/" /\ path[Len(path)] = ".js"

\* C12: with 2 commits or more and a diff query that succeeds, getChangedFiles
\* has returned exactly the kept paths of the diff, in the order of the diff:
\* the result is the diff with the other paths struck out.
C12_ExactlyTheFilteredDiff ==
    (pc # "main" /\ repo.isRepo /\ repo.log.ok /\ repo.log.total >= 2 /\ repo.diff.ok) =>
        LET d == repo.diff.files
            keptAt == {j \in 1..Len(d) : Kept(d[j])}
            rank(j) == Cardinality({i \in keptAt : i <= j})
        IN  /\ Len(changedFiles) = Cardinality(keptAt)
            /\ \A j \in keptAt : changedFiles[rank(j)] = d[j]
            /\ \A i \in 1..Len(changedFiles) : Kept(changedFiles[i])
            /\ "glob" \notin Range(queries)

C12_Witness ==
    /\ pc = "extract"
    /\ repo.log.total = 2
    /\ repo.diff.files = <<PathSrcB, PathLibC, PathSrcA>>
    /\ changedFiles = <<PathSrcB, PathSrcA>>

\* C13: when the commit-count query of a repository or the diff query has
\* failed, getChangedFiles has returned no file and logged the failure; the run
\* has ended at once with status 0, with no network call and no write.
C13_DiffFailedDocumentsNothing ==
    ( /\ pc # "main"
      /\ repo.isRepo
      /\ ~repo.log.ok \/ (repo.log.total >= 2 /\ ~repo.diff.ok) )
    => /\ changedFiles = <<>>
       /\ "glob" \notin Range(queries)
       /\ pc = "done"
       /\ exitCode = 0
       /\ calls = <<>>
       /\ docs = docsAtStart

-----------------------------------------------------------------------------
(* Claims about main *)

\* C14: main has ended with status 1 when the run met a fatal error (missing
\* credential, client error, retries exhausted, invalid response, or an error
\* of a file operation that reached the process boundary), and with status 0
\* when it met none.
C14_ExitStatus ==
    pc = "done" =>
        /\ exitCode \in {0, 1}
        /\ exitCode = 1 <=> faults # {}

-----------------------------------------------------------------------------
(* Claims about the analysis pipeline *)

\* the positions of the input at which the file is of a class
MalformedAt == {i \in 1..Len(filePaths) : disk[filePaths[i]].readable /\ ~disk[filePaths[i]].valid}
ParsedAt == {i \in 1..Len(filePaths) : disk[filePaths[i]].readable /\ disk[filePaths[i]].valid}

\* C17: after analyzeFiles, the record of a readable file whose text is
\* malformed has no function and has error set, the file is in the summary's
\* error list, and the successfully parsed count leaves it out.
C17_MalformedIsRecorded ==
    apc = "returned" =>
        /\ \A i \in MalformedAt :
              /\ i <= Len(results.files)
              /\ results.files[i].functions = <<>>
              /\ results.files[i].error # ""
              /\ \E e \in 1..Len(results.summary.errors) :
                    results.summary.errors[e].file = filePaths[i]
        /\ results.summary.successfullyParsed = Cardinality(ParsedAt)

\* C18: analyzeFiles takes the paths in input order and keeps one FileAnalysis
\* for each path it has taken, at the path's position; it returns only when it
\* has taken every path, whatever files failed before.
C18_OneFileAnalysisPerPath ==
    apc # "start" =>
        /\ Len(results.files) = fileNo
        /\ \A i \in 1..fileNo : results.files[i].filePath = filePaths[i]
        /\ apc = "returned" => fileNo = Len(filePaths)

C18_Witness ==
    /\ apc = "returned"
    /\ Len(filePaths) = 3
    /\ ~disk[filePaths[1]].readable
    /\ disk[filePaths[2]].readable /\ ~disk[filePaths[2]].valid
    /\ disk[filePaths[3]] = TwoFunctions
    /\ Len(results.files) = 3
    /\ results.files[1].error # ""
    /\ results.files[3].filePath = filePaths[3]
    /\ results.files[3].functionCount = 2

RECURSIVE SumErrorFree(_, _)
\* the sum of a count over the error-free records of a sequence
SumErrorFree(files, count) ==
    IF files = <<>> THEN 0
    ELSE (IF Head(files).error = "" THEN Head(files)[count] ELSE 0)
         + SumErrorFree(Tail(files), count)

ErrorFree(files) == SelectSeq(files, LAMBDA f : f.error = "")

\* C19: a FileAnalysis with error set has counts 0 and no function, and each
\* total of the summary is the sum over the error-free records alone.
C19_ErrorsContributeNothing ==
    apc # "start" =>
        /\ \A i \in 1..Len(results.files) :
              results.files[i].error # "" =>
                  /\ results.files[i].functionCount = 0
                  /\ results.files[i].lineCount = 0
                  /\ results.files[i].size = 0
                  /\ results.files[i].functions = <<>>
        /\ results.summary.successfullyParsed = Len(ErrorFree(results.files))
        /\ results.summary.totalFunctions = SumErrorFree(results.files, "functionCount")
        /\ results.summary.totalLines = SumErrorFree(results.files, "lineCount")
        /\ results.summary.totalSize = SumErrorFree(results.files, "size")

C19_Witness ==
    /\ apc = "returned"
    /\ Len(results.files) = 3
    /\ results.files[1].error = "" /\ results.files[1].functionCount = 2
    /\ results.files[2].error # ""
    /\ results.files[3].error = "" /\ results.files[3].lineCount = 2
    /\ results.summary.successfullyParsed = 2
    /\ results.summary.totalFunctions = 2
    /\ results.summary.totalLines = 4
    /\ results.summary.totalSize = 6

\* A position in a tree: the way from the root, a <<field, item>> step by step.
RECURSIVE Positions(_)
Positions(node) ==
    {<<>>} \cup
    UNION {UNION {{<<<<f, i>>>> \o p : p \in Positions(node.fields[f].items[i])} :
                     i \in 1..Len(node.fields[f].items)} :
              f \in 1..Len(node.fields)}

RECURSIVE NodeAt(_, _)
NodeAt(node, p) ==
    IF p = <<>> THEN node ELSE NodeAt(node.fields[p[1][1]].items[p[1][2]], Tail(p))

\* document order: a node before the nodes inside it, an earlier field or item
\* before a later one
Before(p, q) ==
    \E k \in 0..Len(p) :
        /\ k <= Len(q)
        /\ SubSeq(p, 1, k) = SubSeq(q, 1, k)
        /\ \/ k = Len(p) /\ k < Len(q)
           \/ /\ k < Len(p) /\ k < Len(q)
              /\ \/ p[k + 1][1] < q[k + 1][1]
                 \/ p[k + 1][1] = q[k + 1][1] /\ p[k + 1][2] < q[k + 1][2]

\* the node kinds of the dispatch table, and the record kind of each
RecordedAs(type) ==
    CASE type = "FunctionDeclaration" -> "function"
      [] type = "ArrowFunctionExpression" -> "arrow"
      [] type = "FunctionExpression" -> "expression"
      [] type = "MethodDefinition" -> "method"
      [] OTHER -> ""

-----------------------------------------------------------------------------
(* Claims about the records of extractFunctions *)

\* the tree and the records of the first file, once it has been analyzed
Analyzed == apc # "start" /\ fileNo >= 1 /\ disk[filePaths[1]].readable /\ disk[filePaths[1]].valid
TreeOf == disk[filePaths[1]].ast
FoundIn == results.files[1].functions

\* the statements at the top level of a tree
TopLevel(tree) == itemsOf(get(tree, "program"), "body")

\* a statement that is a function declaration with no function inside it
PlainDeclaration(stmt) ==
    /\ stmt.type = "FunctionDeclaration"
    /\ \A q \in Positions(stmt) \ {<<>>} : RecordedAs(NodeAt(stmt, q).type) = ""

\* C21: for a text whose N top-level statements are function declarations
\* with no function nested in them, extractFunctions gives exactly N records,
\* one for each declaration in order, of the kind of a declaration (the type
\* 'function' of the code), with the declared name, the line of the
\* declaration, the async and generator flags of the node and the number of
\* its parameters.
C21_OneRecordPerDeclaration ==
    (Analyzed /\ \A i \in 1..Len(TopLevel(TreeOf)) : PlainDeclaration(TopLevel(TreeOf)[i])) =>
        /\ Len(FoundIn) = Len(TopLevel(TreeOf))
        /\ \A i \in 1..Len(TopLevel(TreeOf)) :
              LET decl == TopLevel(TreeOf)[i]
              IN  FoundIn[i] = [type |-> "function",
                                name |-> get(decl, "id").name,
                                line |-> get(decl, "loc").line,
                                async |-> decl.async,
                                generator |-> decl.generator,
                                params |-> Len(itemsOf(decl, "params")),
                                kind |-> ""]

\* function add(a, b) { return; }
C21_Witness ==
    /\ apc = "returned"
    /\ TreeOf = File(<<FunctionDeclaration("add", 1, FALSE, FALSE,
                           <<Identifier("a", 1), Identifier("b", 1)>>, <<ReturnStatement(1)>>)>>)
    /\ Len(FoundIn) = 1
    /\ FoundIn[1].type = "function"
    /\ FoundIn[1].name = "add"
    /\ FoundIn[1].line = 1
    /\ FoundIn[1].params = 2
    /\ ~FoundIn[1].async
    /\ ~FoundIn[1].generator

\* C22: every record of type arrow or expression that extractFunctions gives
\* has the name "anonymous": for the initializer of a named variable, for the
\* value of a property and for a function expression with a name of its own.
C22_ExpressionsAreAnonymous ==
    Analyzed =>
        \A i \in 1..Len(FoundIn) :
            FoundIn[i].type \in {"arrow", "expression"} => FoundIn[i].name = "anonymous"

\* const o = { p: function named() {} }
C22_Witness ==
    /\ apc = "returned"
    /\ TreeOf = File(<<VariableDeclaration("o", 1, ObjectExpression(1,
                          <<ObjectProperty("p", 1,
                                FunctionExpression("named", 1, FALSE, FALSE, <<>>, <<>>))>>))>>)
    /\ Len(FoundIn) = 1
    /\ FoundIn[1].type = "expression"
    /\ FoundIn[1].name = "anonymous"

\* the method definitions of a tree
MethodTypes == {"ClassMethod", "ObjectMethod", "MethodDefinition"}
MethodsOf(tree) == {q \in Positions(tree) : NodeAt(tree, q).type \in MethodTypes}

\* the records of a type, in the order of the records
OfType(found, type) == SelectSeq(found, LAMBDA r : r.type = type)

\* C23: every method definition of a class or of an object literal in the tree
\* gives one record of type method, in document order: its name is the name of
\* the key, or "computed" for a key that has none, its kind is the kind of the
\* definition, and its flags and parameter count are those of the method.
C23_OneRecordPerMethod ==
    Analyzed =>
        LET at == MethodsOf(TreeOf)
            rank(q) == Cardinality({r \in at : Before(r, q)}) + 1
            methods == OfType(FoundIn, "method")
        IN  /\ Len(methods) = Cardinality(at)
            /\ \A q \in at :
                  LET m == NodeAt(TreeOf, q)
                  IN  /\ methods[rank(q)].name =
                            (IF get(m, "key").name # "" THEN get(m, "key").name ELSE "computed")
                      /\ methods[rank(q)].kind = m.kind
                      /\ methods[rank(q)].async = m.async
                      /\ methods[rank(q)].generator = m.generator
                      /\ methods[rank(q)].params = Len(itemsOf(m, "params"))

-----------------------------------------------------------------------------
(* Claims about generateReport *)

\* the positions of the input whose record has no error
ErrorFreeAt == {i \in 1..Len(results.files) : results.files[i].error = ""}

\* C24: the list of top files of the report holds only error-free files of the
\* input, each at most as often as the input has it, and at most 10 of them;
\* it is in non-increasing order of function count and two files of the same
\* count are in the order they had in the input: the list is what is left of
\* the input when it is put in this order and cut after the tenth file.
C24_TopFiles ==
    apc = "reported" =>
        LET top == report.sortedFiles
        IN  /\ Len(top) = (IF Cardinality(ErrorFreeAt) < 10 THEN Cardinality(ErrorFreeAt) ELSE 10)
            /\ \A k \in 1..Len(top) : top[k].error = ""
            /\ \A k \in 1..(Len(top) - 1) : top[k].functionCount >= top[k + 1].functionCount
            /\ \A i \in ErrorFreeAt :
                  LET ahead == {j \in ErrorFreeAt :
                                   \/ results.files[j].functionCount > results.files[i].functionCount
                                   \/ /\ results.files[j].functionCount = results.files[i].functionCount
                                      /\ j < i}
                  IN  Cardinality(ahead) < 10 => top[Cardinality(ahead) + 1] = results.files[i]

\* twelve files of 1, 1 and 2 functions in turn: the four files of two
\* functions come first, then six of the eight files of one function, in the
\* order of the input
C24_Witness ==
    /\ apc = "reported"
    /\ filePaths = Repeat(<<"c.js", "b.js", "a.js">>, 4)
    /\ Len(report.sortedFiles) = 10
    /\ \A k \in 1..4 : report.sortedFiles[k].filePath = "a.js"
    /\ report.sortedFiles[5].filePath = "c.js"
    /\ report.sortedFiles[6].filePath = "b.js"
    /\ report.sortedFiles[10].filePath = "b.js"

-----------------------------------------------------------------------------
(* Claims about extractExportedFunctions *)

\* C25: for a text that parses, extractExportedFunctions returns one snippet
\* for each top-level statement that is a named export of a function
\* declaration, in the order of the text, with the declared name and with the
\* text of the declaration alone as its code; exported classes, exported
\* variables, export lists, default exports, functions that are not exported
\* and functions inside a block give none.
C25_ExportedFunctionsOnly ==
    [][ (pc = "extract" /\ source'.readable /\ source'.valid) =>
            LET stmts == source'.stmts
                keptAt == {j \in 1..Len(stmts) : stmts[j].kind = "export function"}
                rank(j) == Cardinality({i \in keptAt : i <= j})
            IN  /\ Len(functions') = Cardinality(keptAt)
                /\ \A j \in keptAt :
                      functions'[rank(j)] =
                          [name |-> stmts[j].name,
                           code |-> <<"function " \o stmts[j].name \o "(){}">>] ]_vars

\* { function foo(){} }  export class bar{}  export function bar(){}
C25_Witness ==
    /\ pc = "generate"
    /\ source = Source(<<Stmt("block function", "foo"), Stmt("export class", "bar"),
                         Stmt("export function", "bar")>>)
    /\ functions = <<[name |-> "bar", code |-> <<"function bar(){}">>]>>

-----------------------------------------------------------------------------
(* Claims about the attempts of generateWithGemini *)

\* C26: an invocation of generateWithGemini issues at most MAX_RETRIES network
\* calls, numbered from 1, and a call that met a 2xx response is the last of
\* its invocation: no sleep and no further call follows it.
C26_AtMostThreeCallsAndSuccessEnds ==
    /\ Len(calls) <= MAX_RETRIES
    /\ pc \in {"fetch", "sleep"} => attempt \in 1..MAX_RETRIES
    /\ pc = "fetch" => Len(calls) = attempt - 1
    /\ \A i \in 1..Len(calls) :
          calls[i].status = "200" => (i = Len(calls) /\ pc \notin {"fetch", "sleep"})

\* C27: generateWithGemini sleeps only when another attempt remains: an
\* invocation sleeps at most MAX_RETRIES - 1 times and is never about to sleep
\* after its last attempt.
C27_SleepsOnlyBeforeAnAttempt ==
    /\ Len(sleeps) <= MAX_RETRIES - 1
    /\ pc = "sleep" => attempt < MAX_RETRIES

-----------------------------------------------------------------------------
(* Claims about the order of generation and patches in main *)

\* C28: the patches of the document are applied one after the other: the
\* document changes only in the step of updateDocsFile, which reads the
\* document as it is on disk (as the patch before left it), splices it and
\* writes it before main goes on; while a generation call is in progress the
\* document is neither read nor written.
C28_PatchesAreSerialized ==
    [][ /\ docs' # docs => pc = "update"
        /\ pc \in {"generate", "fetch", "sleep"} =>
              /\ docs' = docs
              /\ fileContent' = fileContent
              /\ patchRes' = patchRes
        /\ (pc = "update" /\ patchRes' # "none") =>
              /\ fileContent' = docs
              /\ docs' = updateDocsFile(rev, docs, functions[funcIdx].name, newDocs).content
              /\ pc' \in {"generate", "extract", "done"}
              /\ calls' = <<>> ]_vars

\* a run on one changed file that has patched foo and then bar: the patch of
\* bar has read what the patch of foo wrote
C28_Witness ==
    /\ pc = "done"
    /\ exitCode = 0
    /\ Len(changedFiles) = 1
    /\ patchArgs # <<>>
    /\ patchArgs[1] = "bar"
    /\ patchRes = "written"
    /\ lastPatch["foo"].done
    /\ lastPatch["bar"].done
    /\ fileContent # docsAtStart
    /\ docs # fileContent

\* C29: in the sync pipeline a changed file whose text fails to parse gives no
\* snippet and no failure: the run goes on with the next changed file, or ends
\* normally after the last one.
C29_ParseFailureIsSkipped ==
    [][ (pc = "extract" /\ source'.readable /\ ~source'.valid) =>
            /\ functions' = <<>>
            /\ exitCode' = 0
            /\ fatal' = NoError
            /\ docs' = docs
            /\ IF fileIdx < Len(changedFiles)
               THEN pc' = "extract" /\ fileIdx' = fileIdx + 1
               ELSE pc' = "done" ]_vars

\* C30: the document is written for a function only after the generation call
\* for that function has returned: a step that changes the document is the
\* patch for the function at hand, with the text that the last call of its
\* generation gave in a 2xx response; and from the start of a generation to
\* its failure the document stays as it was.
C30_WriteFollowsGeneration ==
    [][ /\ docs' # docs =>
              /\ pc = "update"
              /\ calls # <<>>
              /\ calls[Len(calls)].status = "200"
              /\ ~calls[Len(calls)].jsonFailed
              /\ newDocs = calls[Len(calls)].text
              /\ patchArgs' = <<functions[funcIdx].name, newDocs>>
              /\ lastPatch' = [lastPatch EXCEPT ![functions[funcIdx].name] = Patched(newDocs)]
        /\ pc \in {"generate", "fetch", "sleep"} =>
              /\ docs' = docs
              /\ lastPatch' = lastPatch
              /\ fatal' # NoError => (pc' = "done" /\ exitCode' = 1) ]_vars

\* a run that has patched foo and then failed in the generation for bar
C30_Witness ==
    /\ pc = "done"
    /\ exitCode = 1
    /\ funcIdx = 2
    /\ functions[2].name = "bar"
    /\ lastPatch["foo"].done
    /\ ~lastPatch["bar"].done
    /\ calls # <<>>
    /\ docs # docsAtStart

-----------------------------------------------------------------------------
(* Claims about the counts of analyzeFiles *)

\* the positions of the input that the loop has taken and recorded an error for
FailedAt == {i \in 1..fileNo : results.files[i].error # ""}

\* C31: summary.totalFiles is the number of input paths; of the paths the loop
\* has taken, each is counted once, in successfullyParsed or by an entry of
\* summary.errors: the entries of errors are those of the paths that failed,
\* in input order, and successfullyParsed counts the others.  So, when
\* analyzeFiles has returned, totalFiles = successfullyParsed + the number of
\* entries of errors.
C31_EveryPathCountedOnce ==
    apc \in {"loop", "returned", "reported"} =>
        LET summary == results.summary
            rank(i) == Cardinality({j \in FailedAt : j <= i})
        IN  /\ summary.totalFiles = Len(filePaths)
            /\ summary.successfullyParsed + Len(summary.errors) = fileNo
            /\ Len(summary.errors) = Cardinality(FailedAt)
            /\ \A i \in FailedAt : summary.errors[rank(i)].file = filePaths[i]
            /\ summary.successfullyParsed = fileNo - Cardinality(FailedAt)
            /\ apc # "loop" =>
                  summary.totalFiles = summary.successfullyParsed + Len(summary.errors)

\* three paths: an unreadable file, a malformed text, a valid one
C31_Witness ==
    /\ apc = "returned"
    /\ Len(filePaths) = 3
    /\ ~disk[filePaths[1]].readable
    /\ disk[filePaths[2]].readable /\ ~disk[filePaths[2]].valid
    /\ disk[filePaths[3]] = TwoFunctions
    /\ results.summary.totalFiles = 3
    /\ results.summary.successfullyParsed = 2
    /\ Len(results.summary.errors) = 1
    /\ results.summary.errors[1].file = filePaths[1]

====
